---------------------------- MODULE Spec2Model ----------------------------
(***************************************************************************)
(* Model of src/kernel/idt/idt.c: the interrupt descriptor table (idt),    *)
(* its descriptor record (idtp), register_isr and init_idt.                *)
(*                                                                         *)
(* The table is modelled as the 2048 bytes the packed array occupies, so   *)
(* that the byte-wise pointer split of register_isr and the byte count of  *)
(* memset are modelled as written.  The target is 32-bit x86 (lidt, sti,   *)
(* the (uint32_t) cast of a pointer): little-endian, 4-byte pointers,      *)
(* signed char.  The model checker's integers are 32-bit signed, so a      *)
(* 32-bit unsigned value (a pointer, a uint32_t) is held as the integer of *)
(* -2^31 .. 2^31-1 congruent to it modulo 2^32; \div and % round towards   *)
(* minus infinity, so bytes and 16-bit halves are taken as usual.          *)
(***************************************************************************)
EXTENDS Integers, Sequences, FiniteSets, TLC

\* ------------------------------------------------------------- bounds

\* Stale contents the table and idtp may hold when init_idt is entered:
\* patterns 0..NumStale (pattern 0 is a zeroed .bss).
NumStale == 4

\* Maskable interrupts the hardware delivers during a run.
MaxInterrupts == 2

\* register_isr calls made by later kernel code once init_idt has returned.
MaxCalls == 2

\* ------------------------------------------------------ struct layout

\* struct idt_entry, packed: byte offset of each field.
off_offset_1 == 0
off_selector == 2
off_zero == 4
off_type == 5
off_offset_2 == 6

\* sizeof (struct idt_entry): two uint16_t, two uint8_t, one uint16_t.
sizeof_idt_entry == 2 + 2 + 1 + 1 + 2

\* struct idt_entry idt[256]
IDT_ENTRIES == 256

TableBytes == 0 .. (IDT_ENTRIES * sizeof_idt_entry - 1)

Vectors == 0 .. (IDT_ENTRIES - 1)

\* ------------------------------------------------- integer conversions

\* Byte i (0 = lowest) of x's little-endian object representation.
ByteOf(x, i) == (x \div (256 ^ i)) % 256

\* The value of a char (signed on this target) holding the bit pattern b.
CharValue(b) == IF b >= 128 THEN b - 256 ELSE b

\* The bit pattern a char of value c occupies in memory.
CharBits(c) == c % 256

\* The index parameter declared int: no conversion at the call.
Uint8_AsInt(x) == x

Uint8(x) == x % 256

Uint16(x) == x % 65536

\* The 32-bit value whose upper half is hi and lower half is lo.
Int32(hi, lo) == (IF hi >= 32768 THEN hi - 65536 ELSE hi) * 65536 + lo

\* Conversion to uint32_t, written on the two halves of the value.
Uint32(x) == Int32((x \div 65536) % 65536, x % 65536)

\* ------------------------------------------------------- build inputs

\* What the linker and kernel/definitions.h supply: the handler entry
\* points int08, int32, int33, the address of idt, and CODE_SEGMENT.
\* Images: 0x00100020 / 0x00100040 / 0x00100060, CODE_SEGMENT 0x08;
\*         0xDEADBEEF / 0x0012FB80 / 0x0000FFFF, CODE_SEGMENT 0x10;
\*         0x000080FF / 0xFFFFFFFF / 0x7FFF80FF, CODE_SEGMENT 0xFFF8.
Images ==
    { [int08 |-> Int32(16, 32), int32 |-> Int32(16, 64),
       int33 |-> Int32(16, 96), CODE_SEGMENT |-> 8],
      [int08 |-> Int32(57005, 48879), int32 |-> Int32(18, 64384),
       int33 |-> Int32(0, 65535), CODE_SEGMENT |-> 16],
      [int08 |-> Int32(0, 33023), int32 |-> Int32(65535, 65535),
       int33 |-> Int32(32767, 33023), CODE_SEGMENT |-> 65528] }

\* The table linked at 0x00102000 or at 0xC0102000.
IdtAddrs == { Int32(16, 8192), Int32(49168, 8192) }

Builds ==
    { [int08 |-> h.int08, int32 |-> h.int32, int33 |-> h.int33,
       CODE_SEGMENT |-> h.CODE_SEGMENT, idt |-> a] :
          h \in Images, a \in IdtAddrs }

\* Arguments of the register_isr calls made after init_idt:
\* 0xDEADBEEF, 0x0012FB80, 0x00100020.
CallAddrs == { Int32(57005, 48879), Int32(18, 64384), Int32(16, 32) }

\* The index argument before its conversion to uint8_t.
CallIndexes == { 0, 8, 255, 511 }

VARIABLES
    idt,    \* the bytes of struct idt_entry idt[256]
    idtp,   \* struct idt_ptr idtp
    idtr,   \* the CPU's IDT register, written by lidt
    eflags_IF, \* the CPU's interrupt flag, set by sti
    pc,     \* position in init_idt: index into InitIdtOrder
    build,  \* the build's symbols, fixed for the run
    log     \* history: the operations executed so far, in order

vars == <<idt, idtp, idtr, eflags_IF, pc, build, log>>

\* --------------------------------------------------------- memory views

Read16(m, off) == m[off] + 256 * m[off + 1]

\* idt[v] read through the struct's fields.
Entry(m, v) ==
    LET b == v * sizeof_idt_entry IN
    [offset_1 |-> Read16(m, b + off_offset_1),
     selector |-> Read16(m, b + off_selector),
     zero     |-> m[b + off_zero],
     type     |-> m[b + off_type],
     offset_2 |-> Read16(m, b + off_offset_2)]

ZeroEntry ==
    [offset_1 |-> 0, selector |-> 0, zero |-> 0, type |-> 0, offset_2 |-> 0]

\* Stale byte at table offset o under pattern k.
StaleByte(k, o) == IF k = 0 THEN 0 ELSE 255 - ((o * k) % 256)

Op(name, isr, index) == [op |-> name, isr |-> isr, index |-> index]

\* ----------------------------------------------------------- operations

\* memset(&idt, c, n): sets the first n bytes of the object to (unsigned char) c.
memset(m, c, n) == [o \in DOMAIN m |-> IF o < n THEN Uint8(c) ELSE m[o]]

\* memset given the number of entries instead of the number of bytes.
ClearLen_Entries == IDT_ENTRIES

\* The byte count init_idt passes to memset.
ClearLen == 256 * sizeof_idt_entry

\* The size without the "- 1".
IdtpSize_NoMinusOne == Uint16(sizeof_idt_entry * 256)

\* The value init_idt assigns to idtp.size (a uint16_t).
IdtpSize == Uint16((sizeof_idt_entry * 256) - 1)

\* The address cut to 16 bits.
IdtpAddr_Truncated == Uint16(build.idt)

\* The value init_idt assigns to idtp.addr.
IdtpAddr == Uint32(build.idt)

\* 0x8F, the 32-bit trap gate, in place of the interrupt gate.
GateType_Trap == 142 + 1

\* The attribute byte register_isr stores.
GateType == 142

\* The byte offsets into idt that register_isr(isr, index) stores to: the
\* two chars of offset_1, the two chars of offset_2, zero, selector, type.
register_isr_writes(index) ==
    LET b == index * sizeof_idt_entry
    IN  { b + off_offset_1, b + off_offset_1 + 1,
          b + off_offset_2, b + off_offset_2 + 1,
          b + off_zero,
          b + off_selector, b + off_selector + 1,
          b + off_type }

\* register_isr reading the pointer's chars in big-endian order.
register_isr_big_endian(isr, index) ==
    LET b == index * sizeof_idt_entry
        isr_byte_array == [i \in 0 .. 3 |-> CharValue(ByteOf(isr, 3 - i))]
    IN  [idt EXCEPT
            ![b + off_offset_1]     = CharBits(isr_byte_array[0]),
            ![b + off_offset_1 + 1] = CharBits(isr_byte_array[1]),
            ![b + off_offset_2]     = CharBits(isr_byte_array[2]),
            ![b + off_offset_2 + 1] = CharBits(isr_byte_array[3]),
            ![b + off_zero]         = 0,
            ![b + off_selector]     = ByteOf(Uint16(build.CODE_SEGMENT), 0),
            ![b + off_selector + 1] = ByteOf(Uint16(build.CODE_SEGMENT), 1),
            ![b + off_type]         = Uint8(GateType)]

\* register_isr with "+ 1" applied to the uint16_t pointer before the cast,
\* (char *) (&current_entry->offset_2 + 1): the fourth char lands one
\* uint16_t further, in the next slot.
register_isr_ptr_arith(isr, index) ==
    LET b == index * sizeof_idt_entry
        isr_byte_array == [i \in 0 .. 3 |-> CharValue(ByteOf(isr, i))]
    IN  [o \in DOMAIN idt |->
            IF o = b + off_offset_1 THEN CharBits(isr_byte_array[0])
            ELSE IF o = b + off_offset_1 + 1 THEN CharBits(isr_byte_array[1])
            ELSE IF o = b + off_offset_2 THEN CharBits(isr_byte_array[2])
            ELSE IF o = b + off_offset_2 + 2 THEN CharBits(isr_byte_array[3])
            ELSE IF o = b + off_zero THEN 0
            ELSE IF o = b + off_selector
                THEN ByteOf(Uint16(build.CODE_SEGMENT), 0)
            ELSE IF o = b + off_selector + 1
                THEN ByteOf(Uint16(build.CODE_SEGMENT), 1)
            ELSE IF o = b + off_type THEN Uint8(GateType)
            ELSE idt[o]]

\* register_isr without the selector assignment.
register_isr_no_selector(isr, index) ==
    LET b == index * sizeof_idt_entry
        isr_byte_array == [i \in 0 .. 3 |-> CharValue(ByteOf(isr, i))]
    IN  [idt EXCEPT
            ![b + off_offset_1]     = CharBits(isr_byte_array[0]),
            ![b + off_offset_1 + 1] = CharBits(isr_byte_array[1]),
            ![b + off_offset_2]     = CharBits(isr_byte_array[2]),
            ![b + off_offset_2 + 1] = CharBits(isr_byte_array[3]),
            ![b + off_zero]         = 0,
            ![b + off_type]         = Uint8(GateType)]

\* register_isr without the assignment to type.
register_isr_no_type(isr, index) ==
    LET b == index * sizeof_idt_entry
        isr_byte_array == [i \in 0 .. 3 |-> CharValue(ByteOf(isr, i))]
    IN  [idt EXCEPT
            ![b + off_offset_1]     = CharBits(isr_byte_array[0]),
            ![b + off_offset_1 + 1] = CharBits(isr_byte_array[1]),
            ![b + off_offset_2]     = CharBits(isr_byte_array[2]),
            ![b + off_offset_2 + 1] = CharBits(isr_byte_array[3]),
            ![b + off_zero]         = 0,
            ![b + off_selector]     = ByteOf(Uint16(build.CODE_SEGMENT), 0),
            ![b + off_selector + 1] = ByteOf(Uint16(build.CODE_SEGMENT), 1)]

\* register_isr(isr, index): the table after the call.  The pointer is read
\* as four chars; chars 0 and 1 go to the two bytes of offset_1, chars 2
\* and 3 to the two bytes of offset_2.
register_isr(isr, index) ==
    LET b == index * sizeof_idt_entry
        isr_byte_array == [i \in 0 .. 3 |-> CharValue(ByteOf(isr, i))]
    IN  [idt EXCEPT
            ![b + off_offset_1]     = CharBits(isr_byte_array[0]),
            ![b + off_offset_1 + 1] = CharBits(isr_byte_array[1]),
            ![b + off_offset_2]     = CharBits(isr_byte_array[2]),
            ![b + off_offset_2 + 1] = CharBits(isr_byte_array[3]),
            ![b + off_zero]         = 0,
            ![b + off_selector]     = ByteOf(Uint16(build.CODE_SEGMENT), 0),
            ![b + off_selector + 1] = ByteOf(Uint16(build.CODE_SEGMENT), 1),
            ![b + off_type]         = Uint8(GateType)]

\* init_idt with sti moved before the keyboard registration.
InitIdtOrder_StiBeforeKeyboard ==
    << "size", "addr", "memset", "lidt",
       "register_exceptions", "clock", "sti", "keyboard" >>

\* init_idt with the memset moved after register_exceptions().
InitIdtOrder_ClearAfterExceptions ==
    << "size", "addr", "lidt", "register_exceptions",
       "memset", "clock", "keyboard", "sti" >>

\* init_idt with sti moved right after the memset.
InitIdtOrder_StiAfterClear ==
    << "size", "addr", "memset", "sti",
       "lidt", "register_exceptions", "clock", "keyboard" >>

\* The statements of init_idt, in source order.
InitIdtOrder ==
    << "size", "addr", "memset", "lidt",
       "register_exceptions", "clock", "keyboard", "sti" >>

At(stmt) == pc <= Len(InitIdtOrder) /\ InitIdtOrder[pc] = stmt

Done == pc = Len(InitIdtOrder) + 1

\* ---------------------------------------------------------------- Init

Init ==
    /\ build \in Builds
    /\ \E k \in 0 .. NumStale :
          /\ idt = [o \in TableBytes |-> StaleByte(k, o)]
          /\ idtp = [size |-> Uint16(k * 4099), addr |-> k * 65537]
    /\ idtr = [loaded |-> FALSE, limit |-> 0, base |-> 0]
    /\ eflags_IF = FALSE
    /\ pc = 1
    /\ log = << >>

\* -------------------------------------------------------------- actions

\* idtp.size = (sizeof (struct idt_entry) * 256) - 1;
SetSize ==
    /\ At("size")
    /\ idtp' = [idtp EXCEPT !.size = IdtpSize]
    /\ log' = Append(log, Op("size", 0, 0))
    /\ pc' = pc + 1
    /\ UNCHANGED <<idt, idtr, eflags_IF, build>>

\* idtp.addr = (uint32_t) idt;
SetAddr ==
    /\ At("addr")
    /\ idtp' = [idtp EXCEPT !.addr = IdtpAddr]
    /\ log' = Append(log, Op("addr", 0, 0))
    /\ pc' = pc + 1
    /\ UNCHANGED <<idt, idtr, eflags_IF, build>>

\* memset(&idt, 0, 256 * sizeof(struct idt_entry));
Clear ==
    /\ At("memset")
    /\ idt' = memset(idt, 0, ClearLen)
    /\ log' = Append(log, Op("memset", 0, 0))
    /\ pc' = pc + 1
    /\ UNCHANGED <<idtp, idtr, eflags_IF, build>>

\* asm volatile ("lidt %0" : : "m"(idtp));
Lidt ==
    /\ At("lidt")
    /\ idtr' = [loaded |-> TRUE, limit |-> idtp.size, base |-> idtp.addr]
    /\ log' = Append(log, Op("lidt", 0, 0))
    /\ pc' = pc + 1
    /\ UNCHANGED <<idt, idtp, eflags_IF, build>>

\* register_exceptions(): register_isr(int08, 0x8);
RegisterExceptions ==
    /\ At("register_exceptions")
    /\ idt' = register_isr(build.int08, Uint8(8))
    /\ log' = Append(log, Op("register_isr", build.int08, Uint8(8)))
    /\ pc' = pc + 1
    /\ UNCHANGED <<idtp, idtr, eflags_IF, build>>

\* The clock handler registered one vector too low.
RegisterClock_Vector31 ==
    /\ At("clock")
    /\ idt' = register_isr(build.int32, Uint8(31))
    /\ log' = Append(log, Op("register_isr", build.int32, Uint8(31)))
    /\ pc' = pc + 1
    /\ UNCHANGED <<idtp, idtr, eflags_IF, build>>

\* register_isr(int32, 32);
RegisterClock ==
    /\ At("clock")
    /\ idt' = register_isr(build.int32, Uint8(32))
    /\ log' = Append(log, Op("register_isr", build.int32, Uint8(32)))
    /\ pc' = pc + 1
    /\ UNCHANGED <<idtp, idtr, eflags_IF, build>>

\* register_isr(int33, 33);
RegisterKeyboard ==
    /\ At("keyboard")
    /\ idt' = register_isr(build.int33, Uint8(33))
    /\ log' = Append(log, Op("register_isr", build.int33, Uint8(33)))
    /\ pc' = pc + 1
    /\ UNCHANGED <<idtp, idtr, eflags_IF, build>>

\* asm volatile ("sti");
Sti ==
    /\ At("sti")
    /\ eflags_IF' = TRUE
    /\ log' = Append(log, Op("sti", 0, 0))
    /\ pc' = pc + 1
    /\ UNCHANGED <<idt, idtp, idtr, build>>

\* A later caller's register_isr(isr, index), once init_idt has returned.
NumCalls == Len(log) - Len(InitIdtOrder)

Call ==
    /\ Done
    /\ NumCalls < MaxCalls
    /\ \E isr \in CallAddrs, i \in CallIndexes :
          /\ idt' = register_isr(isr, Uint8(i))
          /\ log' = Append(log, Op("register_isr", isr, Uint8(i)))
    /\ UNCHANGED <<idtp, idtr, eflags_IF, pc, build>>

InitIdt ==
    \/ SetSize
    \/ SetAddr
    \/ Clear
    \/ Lidt
    \/ RegisterExceptions
    \/ RegisterClock
    \/ RegisterKeyboard
    \/ Sti

\* init_idt alone: the boot sequence of this file.
Next == InitIdt

Spec == Init /\ [][Next]_vars

\* init_idt followed by register_isr calls from the rest of the kernel.
NextReg == InitIdt \/ Call

SpecReg == Init /\ [][NextReg]_vars

\* ------------------------------------------------------ claim vocabulary

\* (offset_2 << 16) | offset_1
Decode(e) == Int32(e.offset_2, e.offset_1)

\* Bit 7 of the attribute byte.
Present(e) == (e.type \div 128) % 2 = 1

Positions(name) == { i \in 1 .. Len(log) : log[i].op = name }

RegPositions(v) ==
    { i \in 1 .. Len(log) : log[i].op = "register_isr" /\ log[i].index = v }

Executed(name) == Positions(name) # {}

LastIs(name) == log # << >> /\ log[Len(log)].op = name

Last == log[Len(log)]

\* ---------------------------------------------------------------- C1

\* C1: after register_isr(a, v), slot v has offset_1 = bits 0-15 of a and
\* offset_2 = bits 16-31 of a, so (offset_2 << 16) | offset_1 = a.
C1_OffsetsReconstruct ==
    LastIs("register_isr") =>
        LET e == Entry(idt, Last.index) IN
        /\ e.offset_1 = Last.isr % 65536
        /\ e.offset_2 = (Last.isr \div 65536) % 65536
        /\ Decode(e) = Last.isr

\* A later call register_isr(0xDEADBEEF, 255) has just returned.
C1_Witness ==
    /\ NumCalls >= 1
    /\ LastIs("register_isr")
    /\ Last.isr = Int32(57005, 48879)
    /\ Last.index = 255

\* ---------------------------------------------------------------- C2

\* C2: a register_isr(isr, v) step changes no field of any slot w # v and
\* leaves idtp as it was.
C2_OneSlotMutated ==
    [][ (Len(log') = Len(log) + 1 /\ log'[Len(log')].op = "register_isr") =>
            /\ \A w \in Vectors \ { log'[Len(log')].index } :
                  Entry(idt', w) = Entry(idt, w)
            /\ idtp' = idtp ]_vars

\* Vector 8 has been re-registered with a new address while the slots next
\* to it and the present slots 32 and 33 kept their contents.
C2_Witness ==
    /\ NumCalls >= 1
    /\ LastIs("register_isr")
    /\ Last.index = 8
    /\ Last.isr # build.int08
    /\ Entry(idt, 7) = ZeroEntry
    /\ Entry(idt, 9) = ZeroEntry
    /\ Decode(Entry(idt, 32)) = build.int32
    /\ Decode(Entry(idt, 33)) = build.int33

\* ---------------------------------------------------------------- C3

\* C3: lidt executes only after vectors 8, 32 and 33 have been registered:
\* whenever the table is the CPU's active table, slots 8, 32 and 33 hold
\* present descriptors.
C3_LoadAfterPopulate ==
    /\ \A l \in Positions("lidt") :
          \A v \in { 8, 32, 33 } : \E r \in RegPositions(v) : r < l
    /\ (idtr.loaded /\ idtr.base = build.idt) =>
          /\ Present(Entry(idt, 8))
          /\ Present(Entry(idt, 32))
          /\ Present(Entry(idt, 33))

\* ---------------------------------------------------------------- C4

\* C4: sti is the final step of init_idt: lidt and the registrations of
\* vectors 8, 32 and 33 precede it, and nothing (no table write, no idtp
\* write, no lidt) is executed after it.
C4_StiIsFinalStep ==
    /\ eflags_IF <=> Executed("sti")
    /\ \A i \in Positions("sti") :
          /\ i = Len(log)
          /\ \E l \in Positions("lidt") : l < i
          /\ \A v \in { 8, 32, 33 } : \E r \in RegPositions(v) : r < i

\* init_idt has returned with interrupts unmasked.
C4_Witness == Done /\ eflags_IF /\ LastIs("sti")

\* ---------------------------------------------------------------- C5

\* C5: the table is zero-filled exactly once, before the first register_isr
\* and never after one, so no registered descriptor is erased and no stale
\* entry is left in the populated table.
C5_ClearOnceBeforeRegistrations ==
    /\ Cardinality(Positions("memset")) <= 1
    /\ \A j \in Positions("register_isr") :
          /\ \E i \in Positions("memset") : i < j
          /\ \A i \in Positions("memset") : i < j
          /\ Present(Entry(idt, log[j].index))
    /\ Executed("register_isr") =>
          \A v \in Vectors : RegPositions(v) = {} => Entry(idt, v) = ZeroEntry

\* init_idt has returned: one memset and three registrations are behind.
C5_Witness ==
    /\ Done
    /\ Cardinality(Positions("memset")) = 1
    /\ Cardinality(Positions("register_isr")) = 3

\* ---------------------------------------------------------------- C6

\* C6: after the memset and before any registration every slot is zero in
\* all five fields, so every presence flag reads absent.
C6_ClearedAllZero ==
    (Executed("memset") /\ ~Executed("register_isr")) =>
        \A v \in Vectors :
            /\ Entry(idt, v) = ZeroEntry
            /\ ~Present(Entry(idt, v))

\* The memset has just run.
C6_Witness == LastIs("memset") /\ ~Executed("register_isr")

\* ---------------------------------------------------------------- C7

\* C7: idtp.size is 2047 when lidt executes and in every later state,
\* whatever is registered afterwards.
C7_LimitIs2047 ==
    Executed("lidt") => idtp.size = 2047 /\ idtr.limit = 2047

\* The table is loaded and later calls have changed its contents.
C7_Witness ==
    /\ idtr.loaded
    /\ NumCalls >= 2
    /\ Entry(idt, 0) # ZeroEntry
    /\ Decode(Entry(idt, 8)) # build.int08

\* ---------------------------------------------------------------- C8

\* C8: idtp.addr is the table's address when lidt executes, and no write
\* of idtp.size or idtp.addr follows the lidt.
C8_BaseStable ==
    Executed("lidt") =>
        /\ idtr.base = build.idt
        /\ idtp.addr = build.idt
        /\ idtp.size = idtr.limit
        /\ \A l \in Positions("lidt") :
              \A i \in Positions("size") \cup Positions("addr") : i < l

\* The table at 0xC0102000 is loaded and a later call has returned.
C8_Witness ==
    /\ idtr.loaded
    /\ build.idt = Int32(49168, 8192)
    /\ NumCalls >= 1

\* ---------------------------------------------------------------- C9

\* C9: every registered slot has selector = CODE_SEGMENT, zero = 0 and
\* type = 0x8E, and the address of its latest registration; so registering
\* a vector again with another address changes its offset fields only.
C9_FixedFields ==
    \A j \in Positions("register_isr") :
        LET v == log[j].index
            e == Entry(idt, v)
            latest == CHOOSE r \in RegPositions(v) :
                          \A q \in RegPositions(v) : q <= r
        IN  /\ e.selector = build.CODE_SEGMENT
            /\ e.zero = 0
            /\ e.type = 142
            /\ Decode(e) = log[latest].isr

\* Some vector has been registered twice, with two different addresses.
C9_Witness ==
    \E i, j \in Positions("register_isr") :
        /\ i < j
        /\ log[i].index = log[j].index
        /\ log[i].isr # log[j].isr

\* --------------------------------------------------------------- C10

\* C10: once init_idt has returned with int08 = 0x00100020,
\* int32 = 0x00100040 and int33 = 0x00100060, slots 8, 32 and 33 decode to
\* those addresses with type 0x8E and selector CODE_SEGMENT, slots 9-31 and
\* 34-255 are all-zero, idtp.size = 2047 and idtp.addr is the table's
\* address.
C10_EndToEnd ==
    (/\ Done
     /\ build.int08 = 1048608
     /\ build.int32 = 1048640
     /\ build.int33 = 1048672) =>
        /\ Decode(Entry(idt, 8)) = 1048608
        /\ Decode(Entry(idt, 32)) = 1048640
        /\ Decode(Entry(idt, 33)) = 1048672
        /\ \A v \in { 8, 32, 33 } :
              /\ Entry(idt, v).type = 142
              /\ Entry(idt, v).selector = build.CODE_SEGMENT
        /\ \A v \in (9 .. 31) \cup (34 .. 255) : Entry(idt, v) = ZeroEntry
        /\ idtp.size = 2047
        /\ idtp.addr = build.idt

\* init_idt has returned in the build with those three handler addresses.
C10_Witness ==
    /\ Done
    /\ build.int08 = 1048608
    /\ build.int32 = 1048640
    /\ build.int33 = 1048672

\* --------------------------------------------------------------- C11

\* C11: for every value the uint8_t index of register_isr takes, the bytes
\* the call writes are offsets 8*index .. 8*index+7 of the table, all
\* inside its 2048 bytes and none above the limit 2047.
C11_WritesInsideTable ==
    \A j \in Positions("register_isr") :
        LET w == register_isr_writes(log[j].index) IN
        /\ log[j].index \in Vectors
        /\ w = (8 * log[j].index) .. (8 * log[j].index + 7)
        /\ w \subseteq TableBytes
        /\ \A o \in w : o <= 2047

\* A later call has written the last slot, bytes 2040 .. 2047.
C11_Witness ==
    /\ NumCalls >= 1
    /\ LastIs("register_isr")
    /\ Last.index = 255
    /\ 2047 \in register_isr_writes(Last.index)
    /\ Entry(idt, 255).type = 142

\* ------------------------------------------------------------ hardware

\* The vectors the remapped interrupt controller raises: clock, keyboard.
MaskableVectors == { 32, 33 }

NumDelivered == Cardinality(Positions("dispatch") \cup Positions("fault"))

\* What the CPU does with an interrupt on vector v: it reads descriptor v
\* of the table its IDT register names and enters the handler the
\* descriptor decodes to, or faults when no table of this kernel is
\* loaded, the descriptor lies beyond the limit, or it is not present.
Dispatch(v) ==
    IF /\ idtr.loaded
       /\ idtr.base = build.idt
       /\ v * sizeof_idt_entry + (sizeof_idt_entry - 1) <= idtr.limit
       /\ Present(Entry(idt, v))
    THEN Op("dispatch", Decode(Entry(idt, v)), v)
    ELSE Op("fault", 0, v)

\* The hardware, asynchronously: a maskable interrupt is delivered whenever
\* the interrupt flag is set; the handler runs and returns.
Deliver ==
    /\ eflags_IF
    /\ NumDelivered < MaxInterrupts
    /\ \E v \in MaskableVectors : log' = Append(log, Dispatch(v))
    /\ UNCHANGED <<idt, idtp, idtr, eflags_IF, pc, build>>

\* init_idt running while the hardware may interrupt it.
NextHw == InitIdt \/ Deliver

SpecHw == Init /\ [][NextHw]_vars

\* --------------------------------------------------------------- C12

\* C12: with interrupts masked on entry to init_idt, whenever interrupts
\* are unmasked the table is loaded and slots 32 and 33 hold present
\* descriptors for the clock and keyboard handlers; no maskable interrupt
\* is dispatched through an absent descriptor or an unloaded table.
C12_NoDispatchThroughAbsent ==
    /\ eflags_IF =>
          /\ idtr.loaded
          /\ idtr.base = build.idt
          /\ idtr.limit >= 33 * 8 + 7
          /\ Present(Entry(idt, 32))
          /\ Present(Entry(idt, 33))
          /\ Decode(Entry(idt, 32)) = build.int32
          /\ Decode(Entry(idt, 33)) = build.int33
    /\ ~Executed("fault")
    /\ \A j \in Positions("dispatch") :
          log[j].isr = (IF log[j].index = 32 THEN build.int32
                                             ELSE build.int33)

\* A clock interrupt and a keyboard interrupt have both been dispatched.
C12_Witness ==
    /\ \E j \in Positions("dispatch") : log[j].index = 32
    /\ \E j \in Positions("dispatch") : log[j].index = 33

\* --------------------------------------------------------------- C13

\* The fields of the attribute byte: P (bit 7), DPL (bits 6-5), S (bit 4),
\* GateType (bits 3-0).
AttrP(t) == (t \div 128) % 2

AttrDPL(t) == (t \div 32) % 4

AttrS(t) == (t \div 16) % 2

AttrGateType(t) == t % 16

\* C13: the attribute byte of every registered slot decodes to P = 1,
\* DPL = 0, S = 0 and gate type 0xE, the 32-bit interrupt gate.
C13_AttributeDecodes ==
    \A j \in Positions("register_isr") :
        LET t == Entry(idt, log[j].index).type IN
        /\ AttrP(t) = 1
        /\ AttrDPL(t) = 0
        /\ AttrS(t) = 0
        /\ AttrGateType(t) = 14

\* A later call has registered vector 0, whose slot was zero until then.
C13_Witness ==
    /\ NumCalls >= 1
    /\ LastIs("register_isr")
    /\ Last.index = 0
    /\ Cardinality(RegPositions(0)) = 1
    /\ Entry(idt, 0).type # 0

\* --------------------------------------------------------------- C14

\* The registrations of vector v made after every memset.
SinceClear(v) ==
    { r \in RegPositions(v) : \A i \in Positions("memset") : i < r }

\* C14: from the memset on, a slot is present exactly when it has been
\* registered since the memset, and a slot not registered since is zero in
\* every field; when init_idt returns, slots 8, 32 and 33 are the present
\* ones and the 253 others are all-zero.
C14_PresentIffRegistered ==
    /\ Executed("memset") =>
          \A v \in Vectors :
              /\ Present(Entry(idt, v)) <=> SinceClear(v) # {}
              /\ SinceClear(v) = {} => Entry(idt, v) = ZeroEntry
    /\ (Done /\ NumCalls = 0) =>
          /\ { v \in Vectors : Present(Entry(idt, v)) } = { 8, 32, 33 }
          /\ \A v \in Vectors \ { 8, 32, 33 } : Entry(idt, v) = ZeroEntry

\* init_idt has just returned: three slots registered, slot 0 untouched.
C14_Witness ==
    /\ Done
    /\ NumCalls = 0
    /\ SinceClear(8) # {}
    /\ SinceClear(32) # {}
    /\ SinceClear(33) # {}
    /\ SinceClear(0) = {}

=============================================================================
